---- MODULE Spec2Model ----
(***************************************************************************)
(* Call-lifecycle reconciliation of the Bitrix24 wallboard backend.        *)
(*                                                                         *)
(* The repository holds four generations of the POST /bitrix/events        *)
(* handler, each with its own copy of the wallboard state:                 *)
(*   "base"     src/server.js:261-418        (Init/Connected/End/Start)    *)
(*   "daily"    src/server.js:912-1054       (daily reset, work hours)     *)
(*   "answered" src/unnamed/part_000:297-477 (wasAnswered marker)          *)
(*   "live"     src/unnamed/part_001:226-293 (agentLive directory)         *)
(* and the first prototype, which keeps two counters and no call records:  *)
(*   "ringing"  src/unnamed/part_002:29-42                                 *)
(* The variable `variant` says which of them is the running process; Spec  *)
(* runs the four generations, AllSpec the prototype as well.               *)
(*                                                                         *)
(* Strings the code inspects character by character (event names,          *)
(* direction values) have their characters listed in charsOf, so that      *)
(* toUpperCase / toLowerCase / includes are computed, not assumed.         *)
(* Display-only fields of the records (from, to, agent names) are left     *)
(* out: no counter, marker or presence flag depends on them.               *)
(***************************************************************************)
EXTENDS Integers, Sequences, FiniteSets, TLC

VARIABLES variant,            \* which generation of the handler is running
          metrics,            \* metrics / dailyMetrics counters
          liveCalls,          \* Map callId -> call record
          agents,             \* Map agentId -> agent record (agentLive in part_001)
          now,                \* number of deliveries so far: the reading of Date.now()
          isWithinWorkHours,  \* dailyMetrics.isWithinWorkHours   (daily variant)
          date,               \* dailyMetrics.date                 (daily variant)
          previousDayStats,   \* previousDayStats                  (daily variant)
          wallDate,           \* the wall clock: day number
          wallMinute,         \* the wall clock: minute of the day, PNG time
          burst,              \* the events the sender delivers back to back
          pos,                \* how many events of the burst were delivered
          s0,                 \* the wallboard state when the burst began
          portalTokens        \* keys of the stored portal records (portals in part_001)

vars == <<variant, metrics, liveCalls, agents, now, isWithinWorkHours, date,
          previousDayStats, wallDate, wallMinute, burst, pos, s0, portalTokens>>

(***************************************************************************)
(* Bounds of the model.                                                    *)
(***************************************************************************)
MaxEvents == 2       \* single deliveries (base, answered, live)
MaxDailyEvents == 1  \* single deliveries (daily)
MaxPrefix == 0       \* single deliveries after which a burst may still begin
MaxDays == 1         \* midnights the wall clock passes

(***************************************************************************)
(* Strings as character sequences.                                         *)
(***************************************************************************)
lowerLetters == <<"a","b","c","d","e","f","g","h","i","j","k","l","m",
                  "n","o","p","q","r","s","t","u","v","w","x","y","z">>
upperLetters == <<"A","B","C","D","E","F","G","H","I","J","K","L","M",
                  "N","O","P","Q","R","S","T","U","V","W","X","Y","Z">>

\* The characters of the strings a payload of the model can carry: the event
\* names bound by the install callback and their upper-case and short forms,
\* the default of pickEventName, and the direction values.
charsOf ==
    [str \in {"", "unknown", "Outbound", "OnVoximplantCallInit",
              "OnVoximplantCallStart", "OnVoximplantCallConnected",
              "OnVoximplantCallEnd", "ONVOXIMPLANTCALLINIT", "CallInit",
              "ONVOXIMPLANTCALLSTART", "CallStart", "ONVOXIMPLANTCALLCONNECTED",
              "CallConnected", "ONVOXIMPLANTCALLEND", "CallEnd", "OUT", "out", "oUt",
              "outgoing", "callout", "inbound", "IN", "otu"} |->
       CASE str = "" ->
              <<>>
         [] str = "unknown" ->
              <<"u","n","k","n","o","w","n">>
         [] str = "Outbound" ->
              <<"O","u","t","b","o","u","n","d">>
         [] str = "OnVoximplantCallInit" ->
              <<"O","n","V","o","x","i","m","p","l","a","n","t","C","a",
                "l","l","I","n","i","t">>
         [] str = "OnVoximplantCallStart" ->
              <<"O","n","V","o","x","i","m","p","l","a","n","t","C","a",
                "l","l","S","t","a","r","t">>
         [] str = "OnVoximplantCallConnected" ->
              <<"O","n","V","o","x","i","m","p","l","a","n","t","C","a",
                "l","l","C","o","n","n","e","c","t","e","d">>
         [] str = "OnVoximplantCallEnd" ->
              <<"O","n","V","o","x","i","m","p","l","a","n","t","C","a",
                "l","l","E","n","d">>
         [] str = "ONVOXIMPLANTCALLINIT" ->
              <<"O","N","V","O","X","I","M","P","L","A","N","T","C","A",
                "L","L","I","N","I","T">>
         [] str = "CallInit" ->
              <<"C","a","l","l","I","n","i","t">>
         [] str = "ONVOXIMPLANTCALLSTART" ->
              <<"O","N","V","O","X","I","M","P","L","A","N","T","C","A",
                "L","L","S","T","A","R","T">>
         [] str = "CallStart" ->
              <<"C","a","l","l","S","t","a","r","t">>
         [] str = "ONVOXIMPLANTCALLCONNECTED" ->
              <<"O","N","V","O","X","I","M","P","L","A","N","T","C","A",
                "L","L","C","O","N","N","E","C","T","E","D">>
         [] str = "CallConnected" ->
              <<"C","a","l","l","C","o","n","n","e","c","t","e","d">>
         [] str = "ONVOXIMPLANTCALLEND" ->
              <<"O","N","V","O","X","I","M","P","L","A","N","T","C","A",
                "L","L","E","N","D">>
         [] str = "CallEnd" ->
              <<"C","a","l","l","E","n","d">>
         [] str = "OUT" ->
              <<"O","U","T">>
         [] str = "out" ->
              <<"o","u","t">>
         [] str = "oUt" ->
              <<"o","U","t">>
         [] str = "outgoing" ->
              <<"o","u","t","g","o","i","n","g">>
         [] str = "callout" ->
              <<"c","a","l","l","o","u","t">>
         [] str = "inbound" ->
              <<"i","n","b","o","u","n","d">>
         [] str = "IN" ->
              <<"I","N">>
         [] str = "otu" ->
              <<"o","t","u">>]

\* A table computed once: the function f with every value worked out.
Tabulated(f) == f @@ <<>>

\* The case mappings of the letters; every other character maps to itself.
toUpperChar(ch) ==
    IF \E i \in 1..26 : lowerLetters[i] = ch
    THEN upperLetters[CHOOSE i \in 1..26 : lowerLetters[i] = ch]
    ELSE ch
toLowerChar(ch) ==
    IF \E i \in 1..26 : upperLetters[i] = ch
    THEN lowerLetters[CHOOSE i \in 1..26 : upperLetters[i] = ch]
    ELSE ch

\* String(str).toUpperCase() and .toLowerCase(), as characters
toUpperCase(str) == [i \in 1..Len(charsOf[str]) |-> toUpperChar(charsOf[str][i])]
toLowerCase(str) == [i \in 1..Len(charsOf[str]) |-> toLowerChar(charsOf[str][i])]

\* str.includes(pat), on the characters of both
includes(str, pat) ==
    \E i \in 0..(Len(str) - Len(pat)) : SubSeq(str, i + 1, i + Len(pat)) = pat

Max(a, b) == IF a >= b THEN a ELSE b

\* A field the payload does not carry (undefined, null and "" are all falsy).
Absent == ""

(***************************************************************************)
(* Helpers on the maps.                                                    *)
(***************************************************************************)
MapSetAlone(map, key, val) == (key :> val) @@ <<>>
MapSet(map, key, val) == (key :> val) @@ map
MapDeleteKeeps(map, key) == map
MapDelete(map, key) == [k \in DOMAIN map \ {key} |-> map[k]] @@ <<>>
EmptyMap == <<>>

\* metrics.incoming or metrics.outgoing, by the resolved direction
Side(direction) == IF direction = "IN" THEN "incoming" ELSE "outgoing"

IncrDropsOnCancel(m, side, key) ==
    [m EXCEPT ![side][key] = @ + 1,
              !.missedDroppedAbandoned = IF key = "cancelled" THEN @ + 1 ELSE @]
Incr(m, side, key) == [m EXCEPT ![side][key] = @ + 1]

(***************************************************************************)
(* "base" variant: src/server.js lines 160-418.                            *)
(***************************************************************************)
metricsBase ==
    [incoming |-> [inProgress |-> 0, answered |-> 0, missed |-> 0],
     outgoing |-> [inProgress |-> 0, answered |-> 0, cancelled |-> 0],
     missedDroppedAbandoned |-> 0]

\* clampDown(obj, key) applied to metrics[side]
clampDownOutcome(m, side, key) ==
    [m EXCEPT ![side].answered = Max(0, @ - 1)]
clampDownNoFloor(m, side, key) == [m EXCEPT ![side][key] = @ - 1]
clampDown(m, side, key) ==
    IF key \notin DOMAIN m[side] THEN m
    ELSE [m EXCEPT ![side][key] = Max(0, @ - 1)]

\* ensureAgent(agentId, name): the directory after the call
ensureAgentBase(ag, agentId) ==
    IF agentId = Absent THEN ag
    ELSE IF agentId \notin DOMAIN ag
         THEN MapSet(ag, agentId, [onCallNow |-> FALSE,
                                   inboundAnswered |-> 0, inboundMissed |-> 0,
                                   outboundAnswered |-> 0, outboundMissed |-> 0])
         ELSE ag

\* const a = ensureAgent(id); if (a) a[field] = val   /   a[field] += 1
AgentSet(ag, agentId, field, val) ==
    IF agentId \in DOMAIN ag THEN [ag EXCEPT ![agentId][field] = val] ELSE ag
AgentIncr(ag, agentId, field) ==
    IF agentId \in DOMAIN ag THEN [ag EXCEPT ![agentId][field] = @ + 1] ELSE ag

\* direction = (directionRaw || "").toString().toUpperCase().includes("OUT") ? "OUT" : "IN"
directionExactCase(directionRaw) ==
    IF includes(charsOf[directionRaw], <<"O","U","T">>) THEN "OUT" ELSE "IN"
directionUpper(directionRaw) ==
    IF includes(toUpperCase(directionRaw), <<"O","U","T">>) THEN "OUT" ELSE "IN"
directionUpperTable == Tabulated([raw \in DOMAIN charsOf |-> directionUpper(raw)])

\* The Init branch, and the Start branch when the call has no record.
CreateBase(s, callId, direction, agentId, t) ==
    [s EXCEPT
       !.metrics = Incr(s.metrics, Side(direction), "inProgress"),
       !.liveCalls = MapSet(s.liveCalls, callId,
                            [direction |-> direction, agentId |-> agentId, startedAt |-> t]),
       !.agents = IF agentId # Absent
                  THEN AgentSet(ensureAgentBase(s.agents, agentId), agentId, "onCallNow", TRUE)
                  ELSE s.agents]

ConnectedBase(s, callId, direction) ==
    LET has == callId \in DOMAIN s.liveCalls
        dir == IF has THEN s.liveCalls[callId].direction ELSE direction
        lcAgent == IF has THEN s.liveCalls[callId].agentId ELSE Absent
        m1 == Incr(clampDown(s.metrics, Side(dir), "inProgress"), Side(dir), "answered")
        ag1 == IF lcAgent # Absent
               THEN AgentIncr(ensureAgentBase(s.agents, lcAgent), lcAgent,
                              IF dir = "IN" THEN "inboundAnswered" ELSE "outboundAnswered")
               ELSE s.agents
    IN  [s EXCEPT !.metrics = m1, !.agents = ag1]

EndBase(s, callId, direction) ==
    IF callId \notin DOMAIN s.liveCalls
    THEN \* "If we never saw init, still try to clamp"
         [s EXCEPT !.metrics = clampDown(s.metrics, Side(direction), "inProgress")]
    ELSE LET lc == s.liveCalls[callId]
             assumedConnected == FALSE
             m1 == IF assumedConnected THEN s.metrics
                   ELSE IF lc.direction = "IN"
                        THEN [Incr(s.metrics, "incoming", "missed")
                                EXCEPT !.missedDroppedAbandoned = @ + 1]
                        ELSE Incr(s.metrics, "outgoing", "cancelled")
             ag1 == IF ~assumedConnected /\ lc.agentId # Absent
                    THEN AgentIncr(ensureAgentBase(s.agents, lc.agentId), lc.agentId,
                                   IF lc.direction = "IN" THEN "inboundMissed"
                                                          ELSE "outboundMissed")
                    ELSE s.agents
             m2 == clampDown(m1, Side(lc.direction), "inProgress")
             ag2 == IF lc.agentId # Absent
                    THEN AgentSet(ensureAgentBase(ag1, lc.agentId), lc.agentId,
                                  "onCallNow", FALSE)
                    ELSE ag1
         IN  [s EXCEPT !.metrics = m2, !.agents = ag2,
                       !.liveCalls = MapDelete(s.liveCalls, callId)]

\* app.post("/bitrix/events") of the base variant, as a function of the
\* wallboard state s, the payload e and the clock reading t.
EventsBase(s, e, t) ==
    LET eventName == IF e.event # Absent THEN e.event ELSE "unknown"
        callId == e.callId
        direction == directionUpperTable[e.direction]
        agentId == e.agentId
    IN  IF callId = Absent THEN s
        ELSE IF eventName = "OnVoximplantCallInit"
             THEN CreateBase(s, callId, direction, agentId, t)
        ELSE IF eventName = "OnVoximplantCallConnected"
             THEN ConnectedBase(s, callId, direction)
        ELSE IF eventName = "OnVoximplantCallEnd"
             THEN EndBase(s, callId, direction)
        ELSE IF eventName = "OnVoximplantCallStart"
             THEN IF callId \notin DOMAIN s.liveCalls
                  THEN CreateBase(s, callId, direction, agentId, t)
                  ELSE s
        ELSE s

(***************************************************************************)
(* "answered" variant: src/unnamed/part_000 lines 45-150 and 297-477.      *)
(***************************************************************************)
CALLINIT == <<"C","A","L","L","I","N","I","T">>
CALLSTART == <<"C","A","L","L","S","T","A","R","T">>
CALLEND == <<"C","A","L","L","E","N","D">>
ONVOXIMPLANT == <<"O","N","V","O","X","I","M","P","L","A","N","T">>

isInitEvent(e) ==
    LET x == toUpperCase(e)
    IN  includes(x, ONVOXIMPLANT \o CALLINIT) \/ includes(x, CALLINIT)
isStartEvent(e) ==
    LET x == toUpperCase(e)
    IN  includes(x, ONVOXIMPLANT \o CALLSTART) \/ includes(x, CALLSTART)
isEndEvent(e) ==
    LET x == toUpperCase(e)
    IN  includes(x, ONVOXIMPLANT \o CALLEND) \/ includes(x, CALLEND)

\* The three tests, worked out once for every event name of the model.
eventKind ==
    Tabulated([e \in DOMAIN charsOf |->
                 [init |-> isInitEvent(e), start |-> isStartEvent(e), end |-> isEndEvent(e)]])

\* pickEventName(body): the first non-empty candidate field, else "unknown"
pickEventName(e) == IF e.event # Absent THEN e.event ELSE "unknown"

ensureAgentAnswered(ag, agentId) ==
    IF agentId = Absent THEN ag
    ELSE IF agentId \notin DOMAIN ag
         THEN MapSet(ag, agentId, [onCallNow |-> FALSE,
                                   inboundMissed |-> 0, outboundMissed |-> 0])
         ELSE ag

\* "Ensure live call exists": the record the handler works on, and the gauge.
NewCallAnswered(direction, t) ==
    [direction |-> direction, status |-> "INIT", wasAnswered |-> FALSE,
     agentId |-> Absent, startedAt |-> t]

\* "Update with latest info": direction is "IN" or "OUT", never empty, so
\* if (direction) always assigns.
UpdateLatestForgetsAnswer(lc, direction, agentId, status) ==
    [lc EXCEPT !.direction = direction,
               !.agentId = IF agentId # Absent THEN agentId ELSE @,
               !.status = status,
               !.wasAnswered = FALSE]
UpdateLatestAnswered(lc, direction, agentId, status) ==
    [lc EXCEPT !.direction = IF direction # Absent THEN direction ELSE @,
               !.agentId = IF agentId # Absent THEN agentId ELSE @,
               !.status = status]

\* "Update agent state (if we have agent)"
AgentStateAnswered(ag, lc, eventName) ==
    IF lc.agentId # Absent
    THEN AgentSet(ensureAgentAnswered(ag, lc.agentId), lc.agentId,
                  "onCallNow", ~eventKind[eventName].end)
    ELSE ag

\* if (isStartEvent(eventName)) { ... }
StartAnswered(s, lc) ==
    [metrics |-> clampDown(Incr(s.metrics, Side(lc.direction), "answered"),
                           Side(lc.direction), "inProgress"),
     agents |-> s.agents,
     lc |-> [lc EXCEPT !.status = "ANSWERED", !.wasAnswered = TRUE]]

\* if (isEndEvent(eventName)) { ... liveCalls.delete(callId) }
EndAnswered(s, lc, callId) ==
    LET side == Side(lc.direction)
        m1 == IF ~lc.wasAnswered THEN clampDown(s.metrics, side, "inProgress")
              ELSE s.metrics
        m2 == IF lc.wasAnswered THEN m1
              ELSE IF lc.direction = "IN"
                   THEN [Incr(m1, "incoming", "missed")
                           EXCEPT !.missedDroppedAbandoned = @ + 1]
                   ELSE Incr(m1, "outgoing", "cancelled")
        ag1 == IF ~lc.wasAnswered /\ lc.agentId # Absent
               THEN AgentIncr(ensureAgentAnswered(s.agents, lc.agentId), lc.agentId,
                              IF lc.direction = "IN" THEN "inboundMissed"
                                                     ELSE "outboundMissed")
               ELSE s.agents
        ag2 == IF lc.agentId # Absent
               THEN AgentSet(ensureAgentAnswered(ag1, lc.agentId), lc.agentId,
                             "onCallNow", FALSE)
               ELSE ag1
    IN  [metrics |-> m2, agents |-> ag2,
         liveCalls |-> MapDelete(s.liveCalls, callId)]

\* app.post("/bitrix/events") of the answered variant.
EventsAnswered(s, e, t) ==
    LET eventName == pickEventName(e)
        callId == e.callId
        agentId == e.agentId
        direction == directionUpperTable[e.direction]
        status == eventName
        has == callId \in DOMAIN s.liveCalls
        lcA == IF has THEN s.liveCalls[callId] ELSE NewCallAnswered(direction, t)
        mA == IF has THEN s.metrics
              ELSE Incr(s.metrics, Side(direction), "inProgress")
        lcB == UpdateLatestAnswered(lcA, direction, agentId, status)
        agB == AgentStateAnswered(s.agents, lcB, eventName)
        lcC == IF eventKind[eventName].init THEN [lcB EXCEPT !.status = "RINGING"] ELSE lcB
        sC == [metrics |-> mA, agents |-> agB, lc |-> lcC]
        sD == IF eventKind[eventName].start THEN StartAnswered(sC, lcC) ELSE sC
    IN  IF callId = Absent THEN s
        ELSE IF eventKind[eventName].end
             THEN EndAnswered([metrics |-> sD.metrics, agents |-> sD.agents,
                               liveCalls |-> MapSet(s.liveCalls, callId,
                                                    [sD.lc EXCEPT !.status = "ENDED"])],
                              [sD.lc EXCEPT !.status = "ENDED"], callId)
             ELSE [metrics |-> sD.metrics, agents |-> sD.agents,
                   liveCalls |-> MapSet(s.liveCalls, callId, sD.lc)]

(***************************************************************************)
(* "daily" variant: src/server.js lines 456-1054.                          *)
(***************************************************************************)
WORK_START_HOUR == 8
WORK_END_HOUR == 18

\* checkIfWithinWorkHours(), on the minute of the day in PNG time
checkIfWithinWorkHours(minuteOfDay) ==
    LET workStartInMinutes == WORK_START_HOUR * 60
        workEndInMinutes == WORK_END_HOUR * 60
    IN  minuteOfDay >= workStartInMinutes /\ minuteOfDay < workEndInMinutes

previousDayStatsInit ==
    [date |-> Absent,
     incoming |-> [answered |-> 0, missed |-> 0],
     outgoing |-> [answered |-> 0, cancelled |-> 0],
     missedDroppedAbandoned |-> 0,
     totalCalls |-> 0]

yesterdayStatsAfterReset(m, d) ==
    [date |-> d,
     incoming |-> [answered |-> 0, missed |-> 0],
     outgoing |-> [answered |-> 0, cancelled |-> 0],
     missedDroppedAbandoned |-> 0,
     totalCalls |-> 0]

\* yesterdayStats of checkAndResetDailyMetrics()
yesterdayStats(m, d) ==
    [date |-> d,
     incoming |-> [answered |-> m.incoming.answered, missed |-> m.incoming.missed],
     outgoing |-> [answered |-> m.outgoing.answered, cancelled |-> m.outgoing.cancelled],
     missedDroppedAbandoned |-> m.missedDroppedAbandoned,
     totalCalls |-> m.incoming.answered + m.incoming.missed
                    + m.outgoing.answered + m.outgoing.cancelled]

resetAgentsDailyDropsIdle(ag) ==
    [a \in {x \in DOMAIN ag : ag[x].onCallNow} |->
       [ag[a] EXCEPT !.inboundMissed = 0, !.outboundMissed = 0]] @@ <<>>

\* "Reset agent daily stats but keep their IDs/names"
resetAgentsDaily(ag) ==
    [a \in DOMAIN ag |-> [ag[a] EXCEPT !.inboundMissed = 0, !.outboundMissed = 0]]

ensureAgentDaily(ag, agentId) ==
    IF agentId = Absent THEN ag
    ELSE IF agentId \notin DOMAIN ag
         THEN MapSet(ag, agentId, [onCallNow |-> FALSE,
                                   inboundMissed |-> 0, outboundMissed |-> 0])
         ELSE ag

NewCallDaily(direction, t) ==
    [direction |-> direction, status |-> "INIT", wasAnswered |-> FALSE,
     agentId |-> Absent, startedAt |-> t]

\* "Update with latest info" and "Update agent info - prioritize new info"
UpdateLatestDaily(lc, direction, agentId, status) ==
    [lc EXCEPT !.direction = IF direction # Absent THEN direction ELSE @,
               !.agentId = IF agentId # Absent THEN agentId ELSE @,
               !.status = status]

AgentStateDaily(ag, lc, eventName) ==
    IF lc.agentId # Absent
    THEN AgentSet(ensureAgentDaily(ag, lc.agentId), lc.agentId,
                  "onCallNow", ~eventKind[eventName].end)
    ELSE ag

StartDaily(s, lc, agentId) ==
    [metrics |-> clampDown(Incr(s.metrics, Side(lc.direction), "answered"),
                           Side(lc.direction), "inProgress"),
     agents |-> s.agents,
     lc |-> [lc EXCEPT !.status = "ANSWERED", !.wasAnswered = TRUE,
                       !.agentId = IF agentId # Absent /\ @ = Absent THEN agentId ELSE @]]

EndDaily(s, lc, callId) ==
    LET side == Side(lc.direction)
        m1 == IF lc.wasAnswered THEN s.metrics
              ELSE IF lc.direction = "IN"
                   THEN [Incr(clampDown(s.metrics, side, "inProgress"), "incoming", "missed")
                           EXCEPT !.missedDroppedAbandoned = @ + 1]
                   ELSE Incr(clampDown(s.metrics, side, "inProgress"), "outgoing", "cancelled")
        ag1 == IF ~lc.wasAnswered /\ lc.agentId # Absent
               THEN AgentIncr(ensureAgentDaily(s.agents, lc.agentId), lc.agentId,
                              IF lc.direction = "IN" THEN "inboundMissed"
                                                     ELSE "outboundMissed")
               ELSE s.agents
        ag2 == IF lc.agentId # Absent
               THEN AgentSet(ensureAgentDaily(ag1, lc.agentId), lc.agentId,
                             "onCallNow", FALSE)
               ELSE ag1
    IN  [metrics |-> m1, agents |-> ag2,
         liveCalls |-> MapDelete(s.liveCalls, callId)]

\* app.post("/bitrix/events") of the daily variant; within is
\* dailyMetrics.isWithinWorkHours at the time of the delivery.
EventsDaily(s, e, t, within) ==
    LET eventName == pickEventName(e)
        callId == e.callId
        agentId == e.agentId
        direction == directionUpperTable[e.direction]
        status == eventName
        has == callId \in DOMAIN s.liveCalls
        lcA == IF has THEN s.liveCalls[callId] ELSE NewCallDaily(direction, t)
        mA == IF has THEN s.metrics
              ELSE Incr(s.metrics, Side(direction), "inProgress")
        lcB == UpdateLatestDaily(lcA, direction, agentId, status)
        agB == AgentStateDaily(s.agents, lcB, eventName)
        lcC == IF eventKind[eventName].init THEN [lcB EXCEPT !.status = "RINGING"] ELSE lcB
        sC == [metrics |-> mA, agents |-> agB, lc |-> lcC]
        sD == IF eventKind[eventName].start THEN StartDaily(sC, lcC, agentId) ELSE sC
    IN  IF callId = Absent THEN s
        ELSE IF ~within THEN s
        ELSE IF eventKind[eventName].end
             THEN EndDaily([metrics |-> sD.metrics, agents |-> sD.agents,
                            liveCalls |-> MapSet(s.liveCalls, callId,
                                                 [sD.lc EXCEPT !.status = "ENDED"])],
                           [sD.lc EXCEPT !.status = "ENDED"], callId)
             ELSE [metrics |-> sD.metrics, agents |-> sD.agents,
                   liveCalls |-> MapSet(s.liveCalls, callId, sD.lc)]

(***************************************************************************)
(* "live" variant: src/unnamed/part_001.                                   *)
(***************************************************************************)
metricsLive ==
    [incoming |-> [inProgress |-> 0, missed |-> 0, cancelled |-> 0],
     outgoing |-> [inProgress |-> 0, missed |-> 0, cancelled |-> 0],
     missedDroppedAbandoned |-> 0,
     activeAgentsOnCall |-> 0]

\* obj[key] = Math.max(0, (obj[key] || 0) - 1)
clampDownLive(m, side, key) ==
    [m EXCEPT ![side] = [k \in DOMAIN @ \cup {key} |->
                           IF k = key
                           THEN Max(0, (IF key \in DOMAIN @ THEN @[key] ELSE 0) - 1)
                           ELSE @[k]]]

ensureAgentLive(ag, agentId) ==
    IF agentId = Absent THEN ag
    ELSE IF agentId \notin DOMAIN ag
         THEN MapSet(ag, agentId, [onCallNow |-> FALSE,
                                   inboundHandled |-> 0, inboundMissed |-> 0,
                                   outboundHandled |-> 0, outboundMissed |-> 0,
                                   talkSeconds |-> 0])
         ELSE ag

\* recomputeActiveAgentsOnCall(), the state change of broadcast()
broadcastLive(s) ==
    [s EXCEPT !.metrics.activeAgentsOnCall =
                  Cardinality({a \in DOMAIN s.agents : s.agents[a].onCallNow})]

extractDirection(directionRaw) ==
    IF includes(toLowerCase(directionRaw), <<"o","u","t">>) THEN "OUT" ELSE "IN"
extractDirectionTable == Tabulated([raw \in DOMAIN charsOf |-> extractDirection(raw)])

\* `unknown-${Date.now()}`
unknownIds == <<"unknown-0", "unknown-1", "unknown-2", "unknown-3", "unknown-4",
                "unknown-5", "unknown-6", "unknown-7", "unknown-8", "unknown-9",
                "unknown-10", "unknown-11", "unknown-12", "unknown-13">>
unknownId(t) == unknownIds[t + 1]

InitLive(s, callId, direction, agentId, t) ==
    broadcastLive(
      [metrics |-> Incr(s.metrics, Side(direction), "inProgress"),
       liveCalls |-> MapSet(s.liveCalls, callId,
                            [direction |-> direction, startedAt |-> t, agentId |-> agentId]),
       agents |-> IF agentId # Absent
                  THEN AgentSet(ensureAgentLive(s.agents, agentId), agentId, "onCallNow", TRUE)
                  ELSE s.agents])

StartLive(s, callId, agentId) ==
    broadcastLive(
      [metrics |-> s.metrics,
       liveCalls |-> IF callId \in DOMAIN s.liveCalls
                     THEN [s.liveCalls EXCEPT ![callId].agentId =
                                                 IF agentId # Absent THEN agentId ELSE @]
                     ELSE s.liveCalls,
       agents |-> IF agentId # Absent
                  THEN AgentSet(ensureAgentLive(s.agents, agentId), agentId, "onCallNow", TRUE)
                  ELSE s.agents])

EndLive(s, callId) ==
    IF callId \notin DOMAIN s.liveCalls THEN s
    ELSE LET lc == s.liveCalls[callId]
             m1 == clampDownLive(s.metrics, Side(lc.direction), "inProgress")
             m2 == IF lc.direction = "IN"
                   THEN [Incr(m1, "incoming", "missed")
                           EXCEPT !.missedDroppedAbandoned = @ + 1]
                   ELSE Incr(m1, "outgoing", "cancelled")
             ag1 == IF lc.agentId # Absent
                    THEN AgentIncr(ensureAgentLive(s.agents, lc.agentId), lc.agentId,
                                   IF lc.direction = "IN" THEN "inboundMissed"
                                                          ELSE "outboundMissed")
                    ELSE s.agents
             ag2 == IF lc.agentId # Absent
                    THEN AgentSet(ensureAgentLive(ag1, lc.agentId), lc.agentId,
                                  "onCallNow", FALSE)
                    ELSE ag1
         IN  broadcastLive([metrics |-> m2, agents |-> ag2,
                            liveCalls |-> MapDelete(s.liveCalls, callId)])

\* app.post("/bitrix/events") of the live variant.
EventsLive(s, e, t) ==
    LET eventName == e.event          \* extractEventName: null when absent
        callId == IF e.callId # Absent THEN e.callId ELSE unknownId(t)
        agentId == e.agentId
        direction == extractDirectionTable[e.direction]
    IN  IF eventName = Absent THEN s
        ELSE IF eventName = "OnVoximplantCallInit"
             THEN InitLive(s, callId, direction, agentId, t)
        ELSE IF eventName = "OnVoximplantCallStart"
             THEN StartLive(s, callId, agentId)
        ELSE IF eventName = "OnVoximplantCallEnd"
             THEN EndLive(s, callId)
        ELSE s

(***************************************************************************)
(* "ringing" variant: src/unnamed/part_002.                                *)
(***************************************************************************)
metricsRinging == [inboundRinging |-> 0, missedToday |-> 0]

\* app.post("/bitrix/events") of the ringing variant.
EventsRinging(s, e, t) ==
    LET event == e.event
    IN  IF event = "OnVoximplantCallInit"
        THEN [s EXCEPT !.metrics.inboundRinging = @ + 1]
        ELSE IF event = "OnVoximplantCallEnd"
             THEN [s EXCEPT !.metrics.inboundRinging = Max(0, @ - 1),
                            !.metrics.missedToday = @ + 1]
        ELSE s

(***************************************************************************)
(* What one run of the handler sends, in the order of its statements: the  *)
(* acknowledgement to the sender (res.json / res.send) and the broadcasts  *)
(* to the viewers, each with the wallboard state at the time it is issued. *)
(***************************************************************************)
Ack(s) == [op |-> "ack", view |-> s]

\* snapshot() of the base variant: the wallboard state and the number of
\* stored portals (the constant fields of the payload are left out)
snapshot(s, tokens) ==
    [portalsStored |-> Cardinality(tokens),
     metrics |-> s.metrics, liveCalls |-> s.liveCalls, agents |-> s.agents]

\* broadcast() of the base variant: JSON.stringify(snapshot()) sent to every
\* open client
broadcast(s, tokens) == [op |-> "broadcast", view |-> snapshot(s, tokens)]

\* broadcast() of the live variant: { type: "update", metrics, liveCalls, agents }
broadcastUpdate(s) ==
    [op |-> "broadcast",
     view |-> [metrics |-> s.metrics, liveCalls |-> s.liveCalls, agents |-> s.agents]]

SentBaseHalfApplied(s, e, t, tokens) ==
    <<Ack(s)>> \o (IF e.callId = Absent THEN <<>>
                   ELSE <<broadcast([EventsBase(s, e, t) EXCEPT !.liveCalls = s.liveCalls],
                                    tokens)>>)
\* base: res.json first; every branch past the callId test ends in broadcast()
SentBase(s, e, t, tokens) ==
    <<Ack(s)>> \o (IF e.callId = Absent THEN <<>>
                   ELSE <<broadcast(EventsBase(s, e, t), tokens)>>)

\* answered, daily: res.json first; the file has no broadcast
SentAnswered(s, e, t) == <<Ack(s)>>
SentDaily(s, e, t) == <<Ack(s)>>

\* live: res.status(200).send first; Init and Start end in broadcast(), End
\* does when the call has a record
SentLive(s, e, t) ==
    LET callId == IF e.callId # Absent THEN e.callId ELSE unknownId(t)
    IN  <<Ack(s)>> \o
        (IF \/ e.event \in {"OnVoximplantCallInit", "OnVoximplantCallStart"}
            \/ e.event = "OnVoximplantCallEnd" /\ callId \in DOMAIN s.liveCalls
         THEN <<broadcastUpdate(EventsLive(s, e, t))>>
         ELSE <<>>)

\* ringing: the counters change and broadcast() runs, then res.status(200).send
SentRinging(s, e, t) ==
    LET r == EventsRinging(s, e, t)
    IN  (IF e.event \in {"OnVoximplantCallInit", "OnVoximplantCallEnd"}
         THEN <<[op |-> "broadcast", view |-> [metrics |-> r.metrics]]>>
         ELSE <<>>) \o <<Ack(r)>>

(***************************************************************************)
(* The sender and the wall clock.                                          *)
(***************************************************************************)
Variants == {"base", "daily", "answered", "live"}
CallIds == {"c1", "c2"}
AgentIds == {"a1", "a2"}
EventNames == {"OnVoximplantCallInit", "OnVoximplantCallStart",
               "OnVoximplantCallConnected", "OnVoximplantCallEnd", Absent}
DirectionRaws == {Absent, "Outbound"}

MemberIds == {"m1"}

Ev(name, callId, directionRaw, agentId) ==
    [event |-> name, callId |-> callId, direction |-> directionRaw, agentId |-> agentId]

Events ==
    {Ev(n, c, d, a) : n \in EventNames, c \in CallIds \cup {Absent},
                      d \in DirectionRaws, a \in AgentIds \cup {Absent}}

\* Retries: the same record delivered twice in a row.
DupBursts == {<<e, e>> : e \in Events}

\* The call whose whole life a burst can deliver.
LifeCall == "c1"

\* One call's life, delivered back to back: init, then zero, one or two
\* start/connected events, then end.  The init and the start/connected events
\* carry the agent; the later events may carry another direction value.
LifeBursts ==
    UNION {
      LET i == Ev("OnVoximplantCallInit", LifeCall, d1, a)
          m == Ev(mid, LifeCall, d2, a)
          x == Ev("OnVoximplantCallEnd", LifeCall, d2, Absent)
      IN  {<<i, x>>, <<i, m, x>>, <<i, m, m, x>>} :
      mid \in {"OnVoximplantCallStart", "OnVoximplantCallConnected"},
      d1 \in DirectionRaws, d2 \in DirectionRaws, a \in AgentIds \cup {Absent}}

\* A call whose init was never delivered: a start/connected event, then end.
LateBursts ==
    {<<Ev(mid, LifeCall, d, a), Ev("OnVoximplantCallEnd", LifeCall, d, Absent)>> :
       mid \in {"OnVoximplantCallStart", "OnVoximplantCallConnected"},
       d \in DirectionRaws, a \in {"a1", Absent}}

\* The life of LifeCall delivered while another call of the same direction,
\* whose init comes first, stays live.
OtherCall == "c2"
CrowdBursts ==
    {<<Ev("OnVoximplantCallInit", OtherCall, d, Absent),
       Ev("OnVoximplantCallInit", LifeCall, d, Absent),
       Ev(mid, LifeCall, d, Absent),
       Ev("OnVoximplantCallEnd", LifeCall, d, Absent)>> :
       mid \in {"OnVoximplantCallStart", "OnVoximplantCallConnected"},
       d \in DirectionRaws}

\* The life of LifeCall whose init names agent a1 and whose start/connected
\* event names agent a2.
HandoverBursts ==
    {<<Ev("OnVoximplantCallInit", LifeCall, d, "a1"),
       Ev(mid, LifeCall, d, "a2"),
       Ev("OnVoximplantCallEnd", LifeCall, d, Absent)>> :
       mid \in {"OnVoximplantCallStart", "OnVoximplantCallConnected"},
       d \in DirectionRaws}

\* The direction values whose resolution is probed: upper, lower and mixed
\* case, "out" inside a longer value, and values without it.
DirectionProbes ==
    DirectionRaws \cup {"OUT", "out", "oUt", "outgoing", "callout", "inbound", "IN", "otu"}

\* An init for LifeCall that carries one of the probed direction values.
DirectionBursts ==
    {<<Ev("OnVoximplantCallInit", LifeCall, raw, Absent)>> : raw \in DirectionProbes}

\* The upper-case and the short form of each lifecycle event name.
nameForms ==
    [n \in {"OnVoximplantCallInit", "OnVoximplantCallStart",
            "OnVoximplantCallConnected", "OnVoximplantCallEnd"} |->
       CASE n = "OnVoximplantCallInit" -> {"ONVOXIMPLANTCALLINIT", "CallInit"}
         [] n = "OnVoximplantCallStart" -> {"ONVOXIMPLANTCALLSTART", "CallStart"}
         [] n = "OnVoximplantCallConnected" -> {"ONVOXIMPLANTCALLCONNECTED", "CallConnected"}
         [] n = "OnVoximplantCallEnd" -> {"ONVOXIMPLANTCALLEND", "CallEnd"}]

\* The init of LifeCall, then an event for it named in another form.
NameBursts ==
    UNION {{<<Ev("OnVoximplantCallInit", LifeCall, Absent, "a1"),
              Ev(form, LifeCall, Absent, "a1")>> : form \in nameForms[n]} :
           n \in DOMAIN nameForms}

Bursts ==
    DupBursts \cup LifeBursts \cup LateBursts \cup CrowdBursts \cup HandoverBursts
        \cup DirectionBursts \cup NameBursts

\* Sample points of the PNG wall clock (minute of the day) and the day names
\* getCurrentDate() returns.
WallMinutes == <<480, 1080>>
dayNames == <<"day0", "day1", "day2", "day3", "day4">>
getCurrentDate(day) == dayNames[day + 1]

St == [metrics |-> metrics, liveCalls |-> liveCalls, agents |-> agents]

HandleUngated(s, e, t) ==
    CASE variant = "base" -> EventsBase(s, e, t)
      [] variant = "answered" -> EventsAnswered(s, e, t)
      [] variant = "daily" -> EventsDaily(s, e, t, TRUE)
      [] variant = "live" -> EventsLive(s, e, t)
      [] variant = "ringing" -> EventsRinging(s, e, t)

Handle(s, e, t) ==
    CASE variant = "base" -> EventsBase(s, e, t)
      [] variant = "answered" -> EventsAnswered(s, e, t)
      [] variant = "daily" -> EventsDaily(s, e, t, isWithinWorkHours)
      [] variant = "live" -> EventsLive(s, e, t)
      [] variant = "ringing" -> EventsRinging(s, e, t)

\* What the running handler sends on payload e.
SentGiven(s, e, t, tokens) ==
    CASE variant = "base" -> SentBase(s, e, t, tokens)
      [] variant = "answered" -> SentAnswered(s, e, t)
      [] variant = "daily" -> SentDaily(s, e, t)
      [] variant = "live" -> SentLive(s, e, t)
      [] variant = "ringing" -> SentRinging(s, e, t)

\* ... with the portal store as it is when the handler runs.
Sent(s, e, t) == SentGiven(s, e, t, portalTokens)

\* How many single deliveries the sender makes.
Budget == IF variant = "daily" THEN MaxDailyEvents ELSE MaxEvents

\* The daily handler returns before it looks at the call (outside work hours).
Ignoring == variant = "daily" /\ ~isWithinWorkHours

\* How many more single deliveries the sender makes outside work hours, and
\* what they are: the ends of the calls that began during the day.
MaxIgnored == 1
AfterHoursEvents == {Ev("OnVoximplantCallEnd", c, Absent, Absent) : c \in CallIds}
AfterHours(e) ==
    /\ Ignoring
    /\ e \in AfterHoursEvents
    /\ e.callId \in DOMAIN liveCalls
    /\ now < Budget + MaxIgnored

dailyVars == <<isWithinWorkHours, date, previousDayStats, wallDate, wallMinute>>

\* The state after construction of one of the generations in V.
Boot(V) ==
    /\ variant \in V
    /\ metrics = CASE variant = "live" -> metricsLive
                    [] variant = "ringing" -> metricsRinging
                    [] OTHER -> metricsBase
    /\ liveCalls = EmptyMap
    /\ agents = EmptyMap
    /\ now = 0
    /\ wallDate = 0
    /\ wallMinute = WallMinutes[1]
    /\ isWithinWorkHours = checkIfWithinWorkHours(wallMinute)
    /\ date = getCurrentDate(wallDate)
    /\ previousDayStats = previousDayStatsInit
    /\ burst = <<>>
    /\ pos = 0
    /\ s0 = St
    \* a first start: loadTokens() finds no TOKENS_FILE, part_001's Map is new
    /\ portalTokens = {}

Init == Boot(Variants)

DeliverOnStaleRead(e) ==
    LET r == Handle(s0, e, now)
    IN  /\ metrics' = r.metrics
        /\ liveCalls' = r.liveCalls
        /\ agents' = r.agents
        /\ now' = now + 1

\* One run of the handler on payload e.
Deliver(e) ==
    LET r == Handle(St, e, now)
    IN  /\ metrics' = r.metrics
        /\ liveCalls' = r.liveCalls
        /\ agents' = r.agents
        /\ now' = now + 1

\* POST /bitrix/events, a single delivery.
Post(e) ==
    /\ burst = <<>>
    /\ now < Budget \/ AfterHours(e)
    /\ Deliver(e)
    /\ UNCHANGED <<variant, dailyVars, burst, pos, s0, portalTokens>>

\* POST /bitrix/events, the first delivery of a burst.
PostFirst(b) ==
    /\ burst = <<>>
    /\ now <= MaxPrefix
    /\ burst' = b
    /\ pos' = 1
    /\ s0' = St
    /\ Deliver(b[1])
    /\ UNCHANGED <<variant, dailyVars, portalTokens>>

\* POST /bitrix/events, the next delivery of the burst.
PostNext ==
    /\ burst # <<>>
    /\ pos < Len(burst)
    /\ pos' = pos + 1
    /\ Deliver(burst[pos + 1])
    /\ UNCHANGED <<variant, dailyVars, burst, s0, portalTokens>>

\* The wall clock reaches its next sample point; both timers have run since
\* the last one (they fire every 30 s and 60 s).
WallTick ==
    /\ variant = "daily"
    /\ burst = <<>>
    /\ isWithinWorkHours = checkIfWithinWorkHours(wallMinute)
    /\ date = getCurrentDate(wallDate)
    /\ \E i \in 1..Len(WallMinutes) :
         /\ WallMinutes[i] = wallMinute
         /\ IF i < Len(WallMinutes)
            THEN wallMinute' = WallMinutes[i + 1] /\ wallDate' = wallDate
            ELSE /\ wallDate < MaxDays
                 /\ wallMinute' = WallMinutes[1]
                 /\ wallDate' = wallDate + 1
    /\ UNCHANGED <<variant, metrics, liveCalls, agents, now, isWithinWorkHours, date,
                   previousDayStats, burst, pos, s0, portalTokens>>

\* setInterval(..., 60000): checkAndResetDailyMetrics(), then the work-hours flag
MinuteTimer ==
    /\ variant = "daily"
    /\ burst = <<>>
    /\ LET currentDate == getCurrentDate(wallDate)
       IN  IF date # currentDate
           THEN /\ previousDayStats' = yesterdayStats(metrics, date)
                /\ metrics' = metricsBase
                /\ date' = currentDate
                /\ agents' = resetAgentsDaily(agents)
           ELSE UNCHANGED <<previousDayStats, metrics, date, agents>>
    /\ isWithinWorkHours' = checkIfWithinWorkHours(wallMinute)
    /\ UNCHANGED <<variant, liveCalls, now, wallDate, wallMinute, burst, pos, s0,
                   portalTokens>>

\* setInterval(..., 30000): the work-hours flag
HalfMinuteTimer ==
    /\ variant = "daily"
    /\ burst = <<>>
    /\ isWithinWorkHours' = checkIfWithinWorkHours(wallMinute)
    /\ UNCHANGED <<variant, metrics, liveCalls, agents, now, date, previousDayStats,
                   wallDate, wallMinute, burst, pos, s0, portalTokens>>

InstallDropsCalls(memberId, authId) ==
    /\ burst = <<>>
    /\ portalTokens' = portalTokens \cup {memberId}
    /\ liveCalls' = EmptyMap
    /\ UNCHANGED <<variant, metrics, agents, now, dailyVars, burst, pos, s0>>

\* POST /bitrix/install: the portal record is stored under its key (part_001
\* stores it only when the payload carries AUTH_ID; part_002 stores nothing)
Install(memberId, authId) ==
    /\ burst = <<>>
    /\ portalTokens' =
           IF variant = "ringing" \/ (variant = "live" /\ authId = Absent)
           THEN portalTokens
           ELSE portalTokens \cup {memberId}
    /\ UNCHANGED <<variant, metrics, liveCalls, agents, now, dailyVars, burst, pos, s0>>

Next ==
    \/ \E e \in Events : Post(e)
    \/ \E b \in Bursts : PostFirst(b)
    \/ PostNext
    \/ WallTick
    \/ MinuteTimer
    \/ HalfMinuteTimer
    \* installs are sent to the generations without the daily timers; the
    \* daily generation's install handler is part_000's, line for line
    \/ /\ variant # "daily"
       /\ \E memberId \in MemberIds, authId \in {Absent, "t1"} : Install(memberId, authId)

Spec == Init /\ [][Next]_vars

\* The four generations and the prototype.
AllSpec == Boot(Variants \cup {"ringing"}) /\ [][Next]_vars

\* What the event loop guarantees: the setInterval timers keep firing, the
\* wall clock keeps going, and a burst under way is delivered to its end.
\* Nothing obliges the sender to begin a delivery.
FairSpec ==
    /\ Spec
    /\ WF_vars(MinuteTimer)
    /\ WF_vars(HalfMinuteTimer)
    /\ WF_vars(WallTick)
    /\ WF_vars(PostNext)

(***************************************************************************)
(* What the claims read off the state.                                     *)
(***************************************************************************)
\* metrics[side][key], 0 for a counter the variant does not keep
Counter(m, side, key) == IF key \in DOMAIN m[side] THEN m[side][key] ELSE 0

\* The aggregate counters: inProgress, answered, missed, cancelled per
\* direction, and missedDroppedAbandoned.
Counters(m) ==
    [incoming |-> [k \in {"inProgress", "answered", "missed", "cancelled"} |->
                     Counter(m, "incoming", k)],
     outgoing |-> [k \in {"inProgress", "answered", "missed", "cancelled"} |->
                     Counter(m, "outgoing", k)],
     missedDroppedAbandoned |-> m.missedDroppedAbandoned]

\* How many times an outcome (answered, missed, cancelled) of one direction
\* was counted.
Outcomes(m, side) ==
    Counter(m, side, "answered") + Counter(m, side, "missed") + Counter(m, side, "cancelled")

\* The direction the running handler resolves a raw direction value to.
Resolved(directionRaw) ==
    IF variant = "live" THEN extractDirectionTable[directionRaw]
    ELSE directionUpperTable[directionRaw]

\* The event name the running handler counts as "the call was answered".
ConnectedName ==
    IF variant = "base" THEN "OnVoximplantCallConnected" ELSE "OnVoximplantCallStart"

\* The handler is not ignoring deliveries (the daily variant does so outside
\* work hours).
Processing == variant # "daily" \/ isWithinWorkHours

\* The handler applied to the events of b in order, from state s at time t.
RECURSIVE Replay(_, _, _)
Replay(s, b, t) ==
    IF b = <<>> THEN s ELSE Replay(Handle(s, Head(b), t), Tail(b), t + 1)

\* A burst that delivered the whole life of LifeCall, which had no record
\* when the burst began.
LifeDelivered ==
    /\ burst \in LifeBursts
    /\ pos = Len(burst)
    /\ LifeCall \notin DOMAIN s0.liveCalls
    /\ Processing

\* Every event of the burst carries the same direction value.
OneDirection == \A i \in 1..Len(burst) : burst[i].direction = burst[1].direction

(***************************************************************************)
(* C1: after any sequence of deliveries, incoming.inProgress and           *)
(* outgoing.inProgress are both >= 0.                                      *)
(***************************************************************************)
C1_InProgressNeverNegative ==
    /\ metrics.incoming.inProgress >= 0
    /\ metrics.outgoing.inProgress >= 0

\* An end event for a call without a record was delivered twice to the base
\* handler while the gauge stood at 0: clampDown ran at the floor.
C1_ClampedAtZero ==
    /\ variant = "base"
    /\ burst \in DupBursts
    /\ pos = 2
    /\ burst[1].event = "OnVoximplantCallEnd"
    /\ burst[1].callId \notin DOMAIN s0.liveCalls \cup {Absent}
    /\ Counter(s0.metrics, Side(Resolved(burst[1].direction)), "inProgress") = 0
    /\ Counter(metrics, Side(Resolved(burst[1].direction)), "inProgress") = 0

(***************************************************************************)
(* C2: a call record that is removed from liveCalls has had exactly one    *)
(* of answered, missed, cancelled of its direction incremented on its      *)
(* behalf, exactly once over the life of the call.  Stated on the lives    *)
(* whose events all carry one direction value.                             *)
(***************************************************************************)
C2_ExactlyOneOutcomePerCall ==
    (LifeDelivered /\ OneDirection /\ LifeCall \notin DOMAIN liveCalls) =>
        LET side == Side(Resolved(burst[1].direction))
        IN  Outcomes(metrics, side) = Outcomes(s0.metrics, side) + 1

(***************************************************************************)
(* C3: delivering any event record twice in a row leaves every aggregate   *)
(* counter after the second delivery equal to its value after the first.   *)
(***************************************************************************)
C3_DuplicateDeliveryIsNoOp ==
    [][(burst \in DupBursts /\ pos = 1 /\ pos' = 2) =>
          Counters(metrics') = Counters(metrics)]_vars

(***************************************************************************)
(* C4: from a state where call c has no record, init(c) then end(c)        *)
(* leaves inProgress of c's direction at its starting value, adds exactly  *)
(* 1 to missed (inbound) or cancelled (outbound), adds exactly 1 to        *)
(* missedDroppedAbandoned for an inbound call only, leaves answered        *)
(* unchanged and leaves c absent from liveCalls.                           *)
(***************************************************************************)
C4_InitEndCountsOneMiss ==
    (LifeDelivered /\ Len(burst) = 2) =>
        LET dir == Resolved(burst[1].direction)
            side == Side(dir)
            before == Counters(s0.metrics)
            after == Counters(metrics)
        IN  /\ after[side].inProgress = before[side].inProgress
            /\ after[side].answered = before[side].answered
            /\ IF dir = "IN"
               THEN /\ after.incoming.missed = before.incoming.missed + 1
                    /\ after.missedDroppedAbandoned = before.missedDroppedAbandoned + 1
               ELSE /\ after.outgoing.cancelled = before.outgoing.cancelled + 1
                    /\ after.missedDroppedAbandoned = before.missedDroppedAbandoned
            /\ LifeCall \notin DOMAIN liveCalls

(***************************************************************************)
(* C5: from a state where call c has no record, init(c), connected(c),     *)
(* end(c) leaves inProgress of c's direction at its starting value, adds   *)
(* exactly 1 to answered of that direction and leaves missed, cancelled    *)
(* and missedDroppedAbandoned unchanged.  Stated on the lives whose events *)
(* all carry one direction value.                                          *)
(***************************************************************************)
C5_InitConnectedEndCountsOneAnswer ==
    (LifeDelivered /\ OneDirection /\ Len(burst) = 3 /\ burst[2].event = ConnectedName) =>
        LET dir == Resolved(burst[1].direction)
            side == Side(dir)
            before == Counters(s0.metrics)
            after == Counters(metrics)
        IN  /\ after[side].inProgress = before[side].inProgress
            /\ after[side].answered = before[side].answered + 1
            /\ after[side].missed = before[side].missed
            /\ after[side].cancelled = before[side].cancelled
            /\ after.missedDroppedAbandoned = before.missedDroppedAbandoned


(***************************************************************************)
(* C6: from the same starting state, init(c), connected(c), connected(c),  *)
(* end(c) produces the same aggregate counters as init(c), connected(c),   *)
(* end(c).                                                                 *)
(***************************************************************************)
C6_DuplicateConnectedCountsOnce ==
    (LifeDelivered /\ OneDirection /\ Len(burst) = 4 /\ burst[2].event = ConnectedName) =>
        Counters(metrics) =
            Counters(Replay(s0, <<burst[1], burst[2], burst[4]>>, now - 4).metrics)

(***************************************************************************)
(* C7: an end event for a callId without a record in liveCalls changes no  *)
(* aggregate counter and creates no record.                                *)
(***************************************************************************)
C7_GhostEndChangesNothing ==
    (/\ burst # <<>>
     /\ pos = 1
     /\ burst[1].event = "OnVoximplantCallEnd"
     /\ burst[1].callId \notin DOMAIN s0.liveCalls \cup {Absent}) =>
        /\ Counters(metrics) = Counters(s0.metrics)
        /\ DOMAIN liveCalls = DOMAIN s0.liveCalls

(***************************************************************************)
(* C8: in every reachable state, an agent of the directory has onCallNow   *)
(* true if and only if some record of liveCalls has that agentId.          *)
(***************************************************************************)
C8_OnCallNowMatchesLiveCalls ==
    \A a \in DOMAIN agents :
        agents[a].onCallNow <=> (\E c \in DOMAIN liveCalls : liveCalls[c].agentId = a)

(***************************************************************************)
(* C9: once the answered marker (wasAnswered) of a call record is set, no  *)
(* later event clears it while the record exists.                          *)
(***************************************************************************)
C9_AnsweredMarkerIsSticky ==
    [][\A c \in DOMAIN liveCalls \cap DOMAIN liveCalls' :
          ("wasAnswered" \in DOMAIN liveCalls[c] /\ liveCalls[c].wasAnswered) =>
              liveCalls'[c].wasAnswered]_vars

\* A record whose marker was set by the first start event has seen a second
\* event for the same callId and still exists.
C9_MarkedAndDeliveredAgain ==
    /\ burst # <<>>
    /\ pos = 2
    /\ eventKind[pickEventName(burst[1])].start
    /\ burst[1].callId = burst[2].callId
    /\ burst[1].callId \in DOMAIN liveCalls
    /\ "wasAnswered" \in DOMAIN liveCalls[burst[1].callId]
    /\ liveCalls[burst[1].callId].wasAnswered
    /\ Processing

\* The side the direction dir does not name.
OtherSide(direction) == IF direction = "IN" THEN "outgoing" ELSE "incoming"

(***************************************************************************)
(* C10: the direction of a call record is fixed by the event that creates  *)
(* it: no later event for the same callId changes it while the record      *)
(* exists, and the event that removes the record classifies the call and   *)
(* decrements inProgress under that direction, so the other direction's    *)
(* counters stay as they were.  Stated on the events that follow the init  *)
(* of a call's life.                                                       *)
(***************************************************************************)
C10_DirectionIsFixed ==
    [][(/\ burst \in LifeBursts
        /\ LifeCall \notin DOMAIN s0.liveCalls
        /\ LifeCall \in DOMAIN liveCalls
        /\ pos' = pos + 1) =>
           IF LifeCall \in DOMAIN liveCalls'
           THEN liveCalls'[LifeCall].direction = liveCalls[LifeCall].direction
           ELSE Counters(metrics')[OtherSide(liveCalls[LifeCall].direction)] =
                    Counters(metrics)[OtherSide(liveCalls[LifeCall].direction)]]_vars

(***************************************************************************)
(* Steps of a burst, for the claims about one delivery.                    *)
(***************************************************************************)
\* This step is a delivery of a burst; DeliveredEvent is the payload.
BurstStep == burst' # <<>> /\ pos' = pos + 1
DeliveredEvent == burst'[pos']

\* The kinds the running handler tells apart.
IsInit(e) ==
    IF variant \in {"answered", "daily"} THEN eventKind[pickEventName(e)].init
    ELSE e.event = "OnVoximplantCallInit"
IsConnected(e) ==
    IF variant \in {"answered", "daily"} THEN eventKind[pickEventName(e)].start
    ELSE e.event = ConnectedName
IsEnd(e) ==
    IF variant \in {"answered", "daily"} THEN eventKind[pickEventName(e)].end
    ELSE e.event = "OnVoximplantCallEnd"

\* No record of the registry is in the phase ENDED.
NoEndedRecord(calls) ==
    \A c \in DOMAIN calls : "status" \in DOMAIN calls[c] => calls[c].status # "ENDED"

Marker(lc) == IF "wasAnswered" \in DOMAIN lc THEN lc.wasAnswered ELSE FALSE
Identity(lc) ==
    [direction |-> lc.direction, agentId |-> lc.agentId, startedAt |-> lc.startedAt,
     wasAnswered |-> Marker(lc)]

(***************************************************************************)
(* C12: an init event for a callId that already has a record is a no-op:   *)
(* inProgress is not incremented again and the record's direction,         *)
(* agentId, startedAt and answered marker are not overwritten.             *)
(***************************************************************************)
C12_InitOnExistingRecordIsNoOp ==
    [][(BurstStep /\ Processing /\ IsInit(DeliveredEvent)
        /\ DeliveredEvent.callId \in DOMAIN liveCalls) =>
           /\ Counters(metrics').incoming.inProgress = Counters(metrics).incoming.inProgress
           /\ Counters(metrics').outgoing.inProgress = Counters(metrics).outgoing.inProgress
           /\ DeliveredEvent.callId \in DOMAIN liveCalls'
           /\ Identity(liveCalls'[DeliveredEvent.callId]) =
                  Identity(liveCalls[DeliveredEvent.callId])]_vars

(***************************************************************************)
(* C13: a connected event for a callId without a record creates a record   *)
(* and marks it connected, so that the end that follows is classified as   *)
(* answered (answered + 1, nothing missed or cancelled) and inProgress of  *)
(* the direction is back at its prior value.                               *)
(***************************************************************************)
C13_ConnectedWithoutRecordCreatesIt ==
    (/\ burst \in LateBursts
     /\ burst[1].event = ConnectedName
     /\ LifeCall \notin DOMAIN s0.liveCalls
     /\ Processing) =>
        LET side == Side(Resolved(burst[1].direction))
            before == Counters(s0.metrics)
            after == Counters(metrics)
        IN  /\ pos = 1 => LifeCall \in DOMAIN liveCalls
            /\ pos = 2 =>
                 /\ LifeCall \notin DOMAIN liveCalls
                 /\ after[side].inProgress = before[side].inProgress
                 /\ after[side].answered = before[side].answered + 1
                 /\ after[side].missed = before[side].missed
                 /\ after[side].cancelled = before[side].cancelled
                 /\ after.missedDroppedAbandoned = before.missedDroppedAbandoned

\* The running handler has no branch for the event's name.
IsUnknown(e) ==
    /\ ~IsInit(e)
    /\ ~IsConnected(e)
    /\ ~IsEnd(e)
    /\ ~(variant = "base" /\ e.event = "OnVoximplantCallStart")

(***************************************************************************)
(* C14: an event whose kind is not recognised as init, start/connected or  *)
(* end leaves liveCalls, the agent directory and all counters as they      *)
(* were, whether or not its callId has a record.                           *)
(***************************************************************************)
C14_UnknownKindChangesNothing ==
    [][(BurstStep /\ IsUnknown(DeliveredEvent)) =>
           /\ liveCalls' = liveCalls
           /\ agents' = agents
           /\ metrics' = metrics]_vars

(***************************************************************************)
(* C15: an event from which no callId can be extracted is dropped:         *)
(* liveCalls (so also no record under a made-up identifier), the agent     *)
(* directory and all counters are unchanged.                               *)
(***************************************************************************)
C15_NoCallIdIsDropped ==
    [][(BurstStep /\ DeliveredEvent.callId = Absent) =>
           /\ liveCalls' = liveCalls
           /\ agents' = agents
           /\ metrics' = metrics]_vars

\* The outcome counters: everything Counters reads but the inProgress gauges.
OutcomeCounters(m) ==
    [incoming |-> [k \in {"answered", "missed", "cancelled"} |-> Counter(m, "incoming", k)],
     outgoing |-> [k \in {"answered", "missed", "cancelled"} |-> Counter(m, "outgoing", k)],
     missedDroppedAbandoned |-> m.missedDroppedAbandoned]

(***************************************************************************)
(* C16: answered, missed, cancelled and missedDroppedAbandoned change only *)
(* in the step that processes an end event for a live call; init and       *)
(* connected/start events change no counter other than inProgress.         *)
(***************************************************************************)
C16_OutcomesCountedOnlyAtEnd ==
    [][BurstStep =>
          /\ (IsInit(DeliveredEvent) \/ IsConnected(DeliveredEvent)) =>
                 OutcomeCounters(metrics') = OutcomeCounters(metrics)
          /\ OutcomeCounters(metrics') # OutcomeCounters(metrics) =>
                 /\ IsEnd(DeliveredEvent)
                 /\ DeliveredEvent.callId \in DOMAIN liveCalls]_vars

(***************************************************************************)
(* C17: inProgress of a call's direction is incremented once when its      *)
(* record is created and decremented once when it is closed, never twice   *)
(* (at connected and again at end): after init, connected, end of one call *)
(* the gauge still counts the other call that stayed live.                 *)
(***************************************************************************)
C17_InProgressIsSymmetricPerCall ==
    (/\ burst \in CrowdBursts
     /\ burst[3].event = ConnectedName
     /\ pos = Len(burst)
     /\ DOMAIN s0.liveCalls \cap {LifeCall, OtherCall} = {}
     /\ Processing) =>
        LET side == Side(Resolved(burst[1].direction))
        IN  /\ OtherCall \in DOMAIN liveCalls
            /\ LifeCall \notin DOMAIN liveCalls
            /\ Counters(metrics)[side].inProgress = Counters(s0.metrics)[side].inProgress + 1

(***************************************************************************)
(* C18: missedDroppedAbandoned is incremented in exactly the steps in      *)
(* which incoming.missed is, so the two are equal in every reachable       *)
(* state, and outbound cancellations never change it.                      *)
(***************************************************************************)
C18_DroppedEqualsInboundMissed ==
    metrics.missedDroppedAbandoned = metrics.incoming.missed

\* An inbound call was counted missed and an outbound call cancelled.
C18_MissedAndCancelledCounted ==
    /\ metrics.incoming.missed >= 1
    /\ Counter(metrics, "outgoing", "cancelled") >= 1

\* agents[a][key], 0 for an agent or a counter the directory does not hold
AgentCounter(ag, a, key) ==
    IF a \in DOMAIN ag /\ key \in DOMAIN ag[a] THEN ag[a][key] ELSE 0

\* The four outcome counters of an agent (part_001 calls the answered ones
\* inboundHandled and outboundHandled).
AgentOutcomes(ag, a) ==
    [inboundAnswered |-> AgentCounter(ag, a, "inboundAnswered")
                           + AgentCounter(ag, a, "inboundHandled"),
     inboundMissed |-> AgentCounter(ag, a, "inboundMissed"),
     outboundAnswered |-> AgentCounter(ag, a, "outboundAnswered")
                            + AgentCounter(ag, a, "outboundHandled"),
     outboundMissed |-> AgentCounter(ag, a, "outboundMissed")]

(***************************************************************************)
(* C19: for a call attributed to an agent exactly one of the agent's       *)
(* counters inboundAnswered, inboundMissed, outboundAnswered,              *)
(* outboundMissed is incremented, exactly once, matching the call's        *)
(* direction and outcome, and the agent is left with onCallNow false:      *)
(* init, end counts a miss; init, connected, end counts an answer.         *)
(***************************************************************************)
C19_OneAgentCounterPerCall ==
    (/\ LifeDelivered
     /\ OneDirection
     /\ burst[1].agentId # Absent
     /\ Len(burst) = 2 \/ (Len(burst) = 3 /\ burst[2].event = ConnectedName)) =>
        LET a == burst[1].agentId
            dir == Resolved(burst[1].direction)
            key == IF Len(burst) = 2
                   THEN (IF dir = "IN" THEN "inboundMissed" ELSE "outboundMissed")
                   ELSE (IF dir = "IN" THEN "inboundAnswered" ELSE "outboundAnswered")
            before == AgentOutcomes(s0.agents, a)
            after == AgentOutcomes(agents, a)
        IN  /\ a \in DOMAIN agents
            /\ ~agents[a].onCallNow
            /\ \A k \in DOMAIN after :
                 after[k] = before[k] + (IF k = key THEN 1 ELSE 0)

(***************************************************************************)
(* C20: agent attribution is first-writer-wins: once a call record has an  *)
(* agentId, a later event for the same callId that carries another agentId *)
(* does not replace it, and the outcome is counted for the record's agent, *)
(* not for the agent of the later event.                                   *)
(***************************************************************************)
C20_FirstAgentKeepsTheCall ==
    (/\ burst \in HandoverBursts
     /\ LifeCall \notin DOMAIN s0.liveCalls
     /\ Processing
     /\ pos >= 2) =>
        /\ LifeCall \in DOMAIN liveCalls =>
               liveCalls[LifeCall].agentId = burst[1].agentId
        /\ pos = Len(burst) =>
               AgentOutcomes(agents, burst[2].agentId) =
                   AgentOutcomes(s0.agents, burst[2].agentId)

(***************************************************************************)
(* C21: every call record is eventually removed from liveCalls, also when  *)
(* no end event for its callId is ever delivered or the end event is       *)
(* discarded: no record is immortal.                                       *)
(***************************************************************************)
C21_NoRecordIsImmortal ==
    \A c \in CallIds : (c \in DOMAIN liveCalls) ~> (c \notin DOMAIN liveCalls)

(***************************************************************************)
(* C22: for every delivery the acknowledgement to the sender is issued     *)
(* unconditionally (exactly once, whatever the event) and before any       *)
(* mutation of liveCalls, agents or counters for that delivery: the state  *)
(* at the time of the acknowledgement is the state before the delivery.    *)
(***************************************************************************)
C22_AckBeforeAnyMutation ==
    [][BurstStep =>
          LET q == Sent(St, DeliveredEvent, now)
              acks == {i \in 1..Len(q) : q[i].op = "ack"}
          IN  /\ Cardinality(acks) = 1
              /\ \A i \in acks : q[i].view = St]_vars

(***************************************************************************)
(* C23: every delivery that changes liveCalls, the agent directory or a    *)
(* counter is followed, within the same run of the handler, by exactly one *)
(* broadcast of the snapshot to the viewers.                               *)
(***************************************************************************)
C23_MutationIsPushedOnce ==
    [][(BurstStep /\ St' # St) =>
          LET q == Sent(St, DeliveredEvent, now)
          IN  Cardinality({i \in 1..Len(q) : q[i].op = "broadcast"}) = 1]_vars

C26_MalformedInputIsNoOp ==
    [][(BurstStep /\ Processing
          /\ (DeliveredEvent.callId = Absent \/ IsUnknown(DeliveredEvent))) =>
          /\ liveCalls' = liveCalls
          /\ agents' = agents
          /\ Counters(metrics') = Counters(metrics)]_vars

(***************************************************************************)
(* C27: direction resolution maps a raw direction value to OUT if and only *)
(* if the value, compared case-insensitively, contains the substring       *)
(* "out"; every other value, an absent or empty one included, maps to IN.  *)
(***************************************************************************)
\* The value has an o, a u and a t, of either case, in a row.
ContainsOutAnyCase(raw) ==
    LET chars == charsOf[raw]
    IN  \E i \in 1..(Len(chars) - 2) :
            /\ chars[i] \in {"o", "O"}
            /\ chars[i + 1] \in {"u", "U"}
            /\ chars[i + 2] \in {"t", "T"}

C27_OutIffContainsOut ==
    (burst \in DirectionBursts /\ pos = 1 /\ Processing) =>
        /\ LifeCall \in DOMAIN liveCalls
        /\ liveCalls[LifeCall].direction =
               IF ContainsOutAnyCase(burst[1].direction) THEN "OUT" ELSE "IN"

\* Values of every shape were resolved: "out" in lower case inside a longer
\* value gave OUT, a value with the three letters out of order gave IN.
C27_ProbedMixedValues ==
    /\ burst \in DirectionBursts
    /\ pos = 1
    /\ Processing
    /\ \/ burst[1].direction = "callout" /\ liveCalls[LifeCall].direction = "OUT"
       \/ burst[1].direction = "otu" /\ liveCalls[LifeCall].direction = "IN"

(***************************************************************************)
(* C28: event-kind resolution is tolerant of case and naming variants:     *)
(* an event named in upper case ("ONVOXIMPLANTCALLINIT") or in short form  *)
(* ("CallInit") drives the same transition as the event named              *)
(* "OnVoximplantCallInit", and likewise for Start, Connected and End.      *)
(***************************************************************************)
\* The name the install callback binds, for a name in another form.
BoundName(form) == CHOOSE n \in DOMAIN nameForms : form \in nameForms[n]

C28_NameFormsDriveSameTransition ==
    (burst \in NameBursts /\ pos = 2 /\ Processing) =>
        LET bound == [burst[2] EXCEPT !.event = BoundName(burst[2].event)]
            r == Replay(s0, <<burst[1], bound>>, now - 2)
        IN  /\ metrics = r.metrics
            /\ agents = r.agents
            /\ DOMAIN liveCalls = DOMAIN r.liveCalls
            /\ \A c \in DOMAIN liveCalls : Identity(liveCalls[c]) = Identity(r.liveCalls[c])

(***************************************************************************)
(* C29: an agent record, once created in the agent directory, is never     *)
(* removed by any event or timer: the set of agentIds in the directory     *)
(* only grows, and an agent whose calls have all ended keeps its record.   *)
(***************************************************************************)
C29_AgentDirectoryOnlyGrows ==
    [][DOMAIN agents \subseteq DOMAIN agents']_vars

\* The daily reset has run over a directory that holds an agent with no
\* call: the agent is still there, idle, with the daily counters at zero.
C29_IdleAgentSurvivedReset ==
    /\ variant = "daily"
    /\ date # getCurrentDate(0)
    /\ \E a \in DOMAIN agents :
           /\ ~agents[a].onCallNow
           /\ \A c \in DOMAIN liveCalls : liveCalls[c].agentId # a

(***************************************************************************)
(* C30: within one reporting window (between daily resets, or the whole    *)
(* life of the process where there is no reset) each of answered, missed,  *)
(* cancelled per direction and missedDroppedAbandoned is monotonically     *)
(* non-decreasing: no event or timer step ever lowers one of them.         *)
(***************************************************************************)
\* The step is the daily reset: checkAndResetDailyMetrics() found a new date.
DailyReset == date' # date

C30_OutcomeCountersNeverDrop ==
    [][~DailyReset =>
          /\ \A side \in {"incoming", "outgoing"} :
                 \A k \in {"answered", "missed", "cancelled"} :
                     Counter(metrics', side, k) >= Counter(metrics, side, k)
          /\ metrics'.missedDroppedAbandoned >= metrics.missedDroppedAbandoned]_vars

\* Counters that stand above zero went through a timer step that was not
\* a reset, and through further deliveries.
C30_CountedAcrossTimerSteps ==
    /\ variant = "daily"
    /\ date = getCurrentDate(0)
    /\ wallMinute # WallMinutes[1]
    /\ metrics.missedDroppedAbandoned > 0

(***************************************************************************)
(* The install store and the call state.                                   *)
(***************************************************************************)
\* This step stored a portal record.
Stored == portalTokens' # portalTokens

\* Portal keys a store could hold.
PortalKeys == MemberIds \cup {"m2"}

EventKey ==
    IF DeliveredEvent.callId # Absent THEN DeliveredEvent.callId
    ELSE IF variant = "live" THEN unknownId(now) ELSE Absent

\* This step created, removed or rewrote the record of call y.
RecordChanged(y) ==
    \/ (y \in DOMAIN liveCalls) # (y \in DOMAIN liveCalls')
    \/ y \in DOMAIN liveCalls /\ y \in DOMAIN liveCalls' /\ liveCalls[y] # liveCalls'[y]

\* C32: the delivery of an event for call X leaves the record of every other
\* call Y as it was (same fields, same presence); no step of any interleaving
\* changes the records of two calls.
C32_OtherRecordsUntouched ==
    [][/\ BurstStep =>
              \A y \in (DOMAIN liveCalls \cup DOMAIN liveCalls') \ {EventKey} :
                  ~RecordChanged(y)
       /\ Cardinality({y \in DOMAIN liveCalls \cup DOMAIN liveCalls' :
                          RecordChanged(y)}) <= 1]_vars

\* The whole life of one call was delivered while another call stayed live.
C32_LifeBesideLiveCall ==
    /\ burst \in CrowdBursts
    /\ pos = Len(burst)
    /\ OtherCall \in DOMAIN liveCalls
    /\ LifeCall \notin DOMAIN liveCalls

(***************************************************************************)
(* The gauges against the live records.                                    *)
(***************************************************************************)
\* How many records of one direction are live and not yet answered.
Unanswered(calls, direction) ==
    Cardinality({c \in DOMAIN calls :
                   calls[c].direction = direction /\ ~Marker(calls[c])})

\* C33: under the handler with the wasAnswered marker, in every reachable
\* state incoming.inProgress is the number of live records with direction IN
\* and wasAnswered false, and outgoing.inProgress the number with direction
\* OUT and wasAnswered false.
C33_GaugeCountsUnansweredRecords ==
    variant = "answered" =>
        /\ metrics.incoming.inProgress = Unanswered(liveCalls, "IN")
        /\ metrics.outgoing.inProgress = Unanswered(liveCalls, "OUT")

(***************************************************************************)
(* The daily handler outside work hours.                                   *)
(***************************************************************************)
\* This step is the delivery of an event (only deliveries advance now).
Delivery == now' = now + 1

\* C34: under the daily handler, the delivery of an event while
\* isWithinWorkHours is false changes nothing in liveCalls, agents or
\* dailyMetrics, whatever the event; the end of a call created during work
\* hours leaves the call's record in liveCalls.
C34_IgnoredOutsideWorkHours ==
    [][(variant = "daily" /\ ~isWithinWorkHours /\ Delivery) =>
           UNCHANGED <<metrics, liveCalls, agents, isWithinWorkHours, date,
                       previousDayStats>>]_vars

\* A call created during work hours is still live after its end event was
\* delivered outside work hours.
C34_EndIgnoredAfterClosing ==
    /\ variant = "daily"
    /\ ~isWithinWorkHours
    /\ now > Budget
    /\ liveCalls # EmptyMap

(***************************************************************************)
(* The daily reset.                                                        *)
(***************************************************************************)
\* C35: when checkAndResetDailyMetrics() runs and the stored date differs
\* from the current date, previousDayStats receives the stored date and the
\* answered, missed, cancelled and missedDroppedAbandoned values of before the
\* reset, with totalCalls their sum over incoming.answered, incoming.missed,
\* outgoing.answered and outgoing.cancelled, and every counter and both
\* inProgress gauges become 0; when the date is unchanged it changes nothing.
C35_ResetArchivesThenZeroes ==
    [][MinuteTimer =>
         IF date # getCurrentDate(wallDate)
         THEN /\ previousDayStats'.date = date
              /\ previousDayStats'.incoming.answered = metrics.incoming.answered
              /\ previousDayStats'.incoming.missed = metrics.incoming.missed
              /\ previousDayStats'.outgoing.answered = metrics.outgoing.answered
              /\ previousDayStats'.outgoing.cancelled = metrics.outgoing.cancelled
              /\ previousDayStats'.missedDroppedAbandoned = metrics.missedDroppedAbandoned
              /\ previousDayStats'.totalCalls =
                     metrics.incoming.answered + metrics.incoming.missed
                         + metrics.outgoing.answered + metrics.outgoing.cancelled
              /\ \A side \in {"incoming", "outgoing"} :
                     \A k \in DOMAIN metrics'[side] : metrics'[side][k] = 0
              /\ metrics'.missedDroppedAbandoned = 0
              /\ date' = getCurrentDate(wallDate)
         ELSE UNCHANGED <<metrics, date, previousDayStats, agents, liveCalls>>]_vars

\* A day on which calls were counted has been archived by the reset.
C35_CountedDayArchived ==
    /\ variant = "daily"
    /\ previousDayStats.date = getCurrentDate(0)
    /\ date = getCurrentDate(1)
    /\ previousDayStats.totalCalls > 0
    /\ metrics.incoming.inProgress = 0 /\ metrics.outgoing.inProgress = 0

\* The gauges of m count the live, not yet answered records of calls.
GaugesMatch(m, calls) ==
    /\ m.incoming.inProgress = Unanswered(calls, "IN")
    /\ m.outgoing.inProgress = Unanswered(calls, "OUT")

\* C36: the daily reset leaves liveCalls and every agent's identity and
\* onCallNow as they are and resets only the agents' inboundMissed and
\* outboundMissed; and the calls that are live across the reset stay accounted
\* for: if inProgress per direction was the number of live, not yet answered
\* calls of that direction before the reset, it still is after it.
C36_ResetKeepsLiveCallsAccounted ==
    [][DailyReset =>
         /\ liveCalls' = liveCalls
         /\ DOMAIN agents' = DOMAIN agents
         /\ \A a \in DOMAIN agents :
                /\ agents'[a].onCallNow = agents[a].onCallNow
                /\ agents'[a].inboundMissed = 0
                /\ agents'[a].outboundMissed = 0
         /\ GaugesMatch(metrics, liveCalls) => GaugesMatch(metrics', liveCalls')]_vars

(***************************************************************************)
(* The live variant's agents on call.                                      *)
(***************************************************************************)
\* The agents whose onCallNow is true, and the agents the live records name.
OnCall(ag) == {a \in DOMAIN ag : ag[a].onCallNow}
Referenced(calls) == {calls[c].agentId : c \in DOMAIN calls} \ {Absent}

\* C37: under the live variant, what every broadcast shows as
\* metrics.activeAgentsOnCall is the number of agent records whose onCallNow
\* is true, and that number never exceeds the number of agents referenced by
\* the records in liveCalls.
C37_ActiveAgentsBoundedByLiveCalls ==
    variant = "live" =>
        /\ metrics.activeAgentsOnCall = Cardinality(OnCall(agents))
        /\ Cardinality(OnCall(agents)) <= Cardinality(Referenced(liveCalls))

====
